---- MODULE Spec2Model ----
(***************************************************************************)
(* Model of @tsip/flow: MutableFlowImpl (src/src/create-flow.ts) and       *)
(* MutableAsyncFlowImpl (src/unnamed/part_000, create-async-flow.ts).      *)
(*                                                                         *)
(* One flow object is modelled.  `kind` says which class was constructed.  *)
(* The JavaScript host is single threaded: a public method is entered from *)
(* outside only when no emit is running (stack empty); while an emit runs, *)
(* the only code that executes is the listener being invoked, which may    *)
(* call back into the flow (subscribe, unsubscribe, emit, asPromise).      *)
(*                                                                         *)
(* `subscriptions` is the ECMAScript Set of the source: its [[SetData]]    *)
(* list keeps insertion order, Set.prototype.delete replaces an entry by   *)
(* the value `empty` (0 here) and Set.prototype.add appends.  A for-of     *)
(* loop over the Set holds an index into that live list.                   *)
(***************************************************************************)
EXTENDS Integers, Sequences, FiniteSets, TLC

\* ---- bounds ----
MaxSubs == 3        \* subscription objects ever created
MaxEmits == 2       \* emit calls ever started (nested ones included)
MaxDepth == 2       \* emit calls active at once
ScenarioEmits == 3  \* emit calls of the transition scenario
MaxPromises == 2    \* promise objects ever created

\* ---- values ----
Pending == [status |-> "pending"]
Success(d) == [status |-> "success", data |-> d]
Error(e) == [status |-> "error", error |-> e]

\* the states a caller passes to the constructor and to emit
States == <<Pending, Success("d1"), Success("d2"), Error("e1")>>

\* the error object thrown by the listener of Subscription number k (each
\* throwing listener throws an error object of its own)
ListenerError(k) == [kind |-> "err", id |-> k, errors |-> <<>>]
\* new AggregateError(errors, "Failed to call flow listeners")
AggregateError(errors) == [kind |-> "agg", id |-> 0, errors |-> errors]

\* ---- listener functions (the callbacks a caller may pass to subscribe) ----
\* ok: () => {}                      throw: () => { throw err }
\* sub: () => { flow.subscribe(ok) } unsub: () => { sub_arg?.unsubscribe() }
\* emit: () => { if (flow.getSnapshot() !== w) flow.emit(w) }, w = States[arg]
\*       (a listener that emits unconditionally re-enters itself for ever)
\* promise: () => { flow.asPromise() }
\* internal: the closure asPromise subscribes for promise number arg
Fn(op, arg) == [op |-> op, arg |-> arg]
UserListeners ==
    {Fn("ok", 0), Fn("throw", 0), Fn("sub", 0), Fn("promise", 0)}
        \cup {Fn("unsub", k) : k \in 1..MaxSubs}
        \cup {Fn("emit", i) : i \in {1, 2}}

VARIABLES
    kind,           \* "flow" (MutableFlowImpl) or "async" (MutableAsyncFlowImpl)
    value,          \* this.value
    subscriptions,  \* this.subscriptions: Set data list, 0 = deleted entry
    promise,        \* this.promise: index into promises, 0 = null
    subs,           \* heap of Subscription objects, by creation number; with
                    \* each, observations: on (subscribe has returned it and
                    \* its unsubscribe has not been called), owed (the number
                    \* of emit calls started while it was on minus the number
                    \* of invocations of its listener)
    promises,       \* heap of Promise objects, by creation number; with
                    \* each, observations: born (the state when asPromise
                    \* created it), first (the first Success or Error passed
                    \* to emit since then, Pending = none yet), stale (emit
                    \* has been called in a Success or Error state since
                    \* then), calls (invocations of its resolve and reject)
    stack,          \* active emit calls, innermost last
    last,           \* observation: the emit call that has just returned, if
                    \* any; the handle whose unsubscribe has just returned
                    \* (unsub, 0 = none) and whether it was on before (wasOn);
                    \* the promise asPromise has just returned (got, 0 = none)
    emits,          \* observation: number of emit calls started
    view            \* what asFlow() returned to the caller, if it was called

vars ==
    <<kind, value, subscriptions, promise, subs, promises, stack, last, emits, view>>

\* ---- the ECMAScript Set behind this.subscriptions ----
\* values of the Set, in insertion order
LiveSeq(s) == SelectSeq(s, LAMBDA x : x # 0)
Live(s) == {s[i] : i \in DOMAIN s} \ {0}
\* (mutant) an array registry, splice(indexOf(x), 1): when x is not there the
\* index is -1 and the last entry goes
SetDeleteSplice(s, x) ==
    LET gone == IF \E i \in DOMAIN s : s[i] = x THEN x
                ELSE IF \E i \in DOMAIN s : s[i] # 0
                     THEN s[CHOOSE i \in DOMAIN s : s[i] # 0 /\ \A k \in (i + 1)..Len(s) : s[k] = 0]
                     ELSE x
    IN [i \in DOMAIN s |-> IF s[i] = gone THEN 0 ELSE s[i]]
\* (mutant) an array registry whose removal moves the later entries down
SetDeleteShift(s, x) ==
    IF \E i \in DOMAIN s : s[i] = x
    THEN SelectSeq(s, LAMBDA y : y # x) \o <<0>>
    ELSE s
\* (mutant) a registry that puts the newest subscription first
SetAddFront(s, x) == <<x>> \o s
\* Set.prototype.add of an object that is not in the Set: append
SetAdd(s, x) == Append(s, x)
\* Set.prototype.delete: the entry becomes empty, the list keeps its length
SetDelete(s, x) == [i \in DOMAIN s |-> IF s[i] = x THEN 0 ELSE s[i]]
\* %SetIteratorPrototype%.next with the iterator at position idx of the live
\* list: the position of the next entry that is not empty, 0 when exhausted
NextEntry(s, idx) ==
    IF \E j \in idx..Len(s) : s[j] # 0
    THEN CHOOSE j \in idx..Len(s) : s[j] # 0 /\ \A k \in idx..(j - 1) : s[k] = 0
    ELSE 0

\* ---- the flow object ----
Obj ==
    [value |-> value, subscriptions |-> subscriptions, promise |-> promise,
     subs |-> subs, promises |-> promises]
Store(o) ==
    /\ value' = o.value
    /\ subscriptions' = o.subscriptions
    /\ promise' = o.promise
    /\ subs' = o.subs
    /\ promises' = o.promises

\* (mutant) a registry of listener functions: a function that is already
\* registered is not added again
subscribeOncePerFn(o, fn) ==
    [o EXCEPT !.subs = Append(@, [listener |-> fn, on |-> TRUE, owed |-> 0]),
              !.subscriptions =
                  IF \E s \in Live(o.subscriptions) : o.subs[s].listener = fn
                  THEN Append(@, 0)
                  ELSE SetAdd(@, Len(o.subs) + 1)]
\* (mutant) subscribe that calls the new listener at once with the current value
subscribeReplay(o, fn) ==
    [o EXCEPT !.subs = Append(@, [listener |-> fn, on |-> TRUE, owed |-> -1]),
              !.subscriptions = SetAdd(@, Len(o.subs) + 1)]
\* subscribe(listener): a new Subscription object, added to the Set
subscribe(o, fn) ==
    [o EXCEPT !.subs = Append(@, [listener |-> fn, on |-> TRUE, owed |-> 0]),
              !.subscriptions = SetAdd(@, Len(o.subs) + 1)]
\* (mutant) unsubscribe that leaves the Set as it is
unsubscribeKeeps(o, s) == [o EXCEPT !.subs[s].on = FALSE]
\* subscription.unsubscribe() of the Subscription object number s
unsubscribe(o, s) ==
    [o EXCEPT !.subscriptions = SetDelete(@, s), !.subs[s].on = FALSE]
getSnapshot(o) == o.value

\* (mutant) emit that notifies without storing the value
FlowEmitNoStore(o, v) == o
\* MutableFlowImpl.emit up to the loop: this.value = value
FlowEmit(o, v) == [o EXCEPT !.value = v]
\* (mutant) an emit that empties the cache only on entering Pending
AsyncEmitToPending(o, v) ==
    FlowEmit(IF v.status = "pending" /\ o.value.status # "pending"
             THEN [o EXCEPT !.promise = 0] ELSE o, v)
\* (mutant) an emit that keeps the cache when the new state is the current one
AsyncEmitUnlessSame(o, v) ==
    FlowEmit(IF o.value.status # "pending" /\ v # o.value
             THEN [o EXCEPT !.promise = 0] ELSE o, v)
\* (mutant) an emit that empties the cache every time
AsyncEmitAlways(o, v) == FlowEmit([o EXCEPT !.promise = 0], v)
\* (mutant) an emit that tests the new state instead of the current one
AsyncEmitByNewState(o, v) ==
    FlowEmit(IF v.status # "pending" THEN [o EXCEPT !.promise = 0] ELSE o, v)
\* MutableAsyncFlowImpl.emit up to the loop: the switch, then super.emit
AsyncEmit(o, v) ==
    LET o1 == IF v.status = "pending"
              THEN (IF o.value.status # "pending" THEN [o EXCEPT !.promise = 0] ELSE o)
              ELSE (IF o.value.status # "pending" THEN [o EXCEPT !.promise = 0] ELSE o)
    IN FlowEmit(o1, v)
emit(o, v) == IF kind = "async" THEN AsyncEmit(o, v) ELSE FlowEmit(o, v)

\* ---- promises ----
NewPromise(state) ==
    [status |-> "pending", result |-> "none",
     born |-> state, first |-> Pending, stale |-> FALSE, calls |-> 0]
\* resolve(data) / reject(error) of promise p: no effect once p is settled
resolve(o, p, d) ==
    IF o.promises[p].status = "pending"
    THEN [o EXCEPT !.promises[p].status = "fulfilled", !.promises[p].result = d,
                   !.promises[p].calls = @ + 1]
    ELSE [o EXCEPT !.promises[p].calls = @ + 1]
\* (mutant) a rejection with a new error made from the original one
rejectWrapped(o, p, e) ==
    IF o.promises[p].status = "pending"
    THEN [o EXCEPT !.promises[p].status = "rejected", !.promises[p].result = "wrapped"]
    ELSE o
reject(o, p, e) ==
    IF o.promises[p].status = "pending"
    THEN [o EXCEPT !.promises[p].status = "rejected", !.promises[p].result = e,
                   !.promises[p].calls = @ + 1]
    ELSE [o EXCEPT !.promises[p].calls = @ + 1]
\* (mutant) an internal listener that settles and stays subscribed
InternalListenerStays(o, s, p) ==
    LET state == getSnapshot(o)
    IN IF state.status = "pending" THEN o
       ELSE IF state.status = "error" THEN reject(o, p, state.error)
       ELSE resolve(o, p, state.data)
\* (mutant) an internal listener that waits for a Success state only
InternalListenerSuccessOnly(o, s, p) ==
    LET state == getSnapshot(o)
    IN IF state.status # "success" THEN o
       ELSE resolve(unsubscribe(o, s), p, state.data)
\* (mutant) an internal listener that does not wait: it settles on the first
\* notification, whatever the state
InternalListenerNoWait(o, s, p) ==
    LET state == getSnapshot(o)
        o1 == unsubscribe(o, s)
    IN IF state.status = "error" THEN reject(o1, p, state.error)
       ELSE IF state.status = "success" THEN resolve(o1, p, state.data)
       ELSE resolve(o1, p, "none")
\* the listener asPromise subscribes: s is its own Subscription, p its promise
InternalListener(o, s, p) ==
    LET state == getSnapshot(o)
    IN IF state.status = "pending" THEN o
       ELSE LET o1 == unsubscribe(o, s)
            IN IF state.status = "error"
               THEN reject(o1, p, state.error)
               ELSE resolve(o1, p, state.data)
\* (mutant) an accessor that marks the flow as loading
asPromiseTouch(o) ==
    IF o.promise # 0 THEN [o EXCEPT !.value = Pending]
    ELSE LET p == Len(o.promises) + 1
             o0 == [o EXCEPT !.promises = Append(@, NewPromise(getSnapshot(o)))]
             state == getSnapshot(o0)
             o1 == IF state.status = "success" THEN resolve(o0, p, state.data)
                   ELSE IF state.status = "error" THEN reject(o0, p, state.error)
                   ELSE subscribe(o0, Fn("internal", p))
         IN [o1 EXCEPT !.promise = p, !.value = Pending]
\* (mutant) asPromise without the cache test: this.promise = new Promise(...)
asPromiseFresh(o) ==
    LET p == Len(o.promises) + 1
        o0 == [o EXCEPT !.promises = Append(@, NewPromise(getSnapshot(o)))]
        state == getSnapshot(o0)
        o1 == IF state.status = "success" THEN resolve(o0, p, state.data)
              ELSE IF state.status = "error" THEN reject(o0, p, state.error)
              ELSE subscribe(o0, Fn("internal", p))
    IN [o1 EXCEPT !.promise = p]
\* asPromise(): this.promise ??= new Promise(executor); return this.promise
asPromise(o) ==
    IF o.promise # 0 THEN o
    ELSE LET p == Len(o.promises) + 1
             o0 == [o EXCEPT !.promises = Append(@, NewPromise(getSnapshot(o)))]
             state == getSnapshot(o0)
             o1 == IF state.status = "success" THEN resolve(o0, p, state.data)
                   ELSE IF state.status = "error" THEN reject(o0, p, state.error)
                   ELSE subscribe(o0, Fn("internal", p))
         IN [o1 EXCEPT !.promise = p]

\* ---- the read-only view ----
NoView == [is |-> "none"]
\* (mutant) asFlow that returns a copy of the flow as it is now
asFlowCopy(o) == [is |-> "copy", obj |-> o]
\* asFlow(): return this
asFlow(o) == [is |-> "this"]
\* the object on which a method called on the view acts
ViewTarget == IF view.is = "copy" THEN view.obj ELSE Obj
\* the effect of such a method, o being the target afterwards
StoreView(o) ==
    IF view.is = "copy"
    THEN /\ view' = [view EXCEPT !.obj = o]
         /\ UNCHANGED <<value, subscriptions, promise, subs, promises>>
    ELSE /\ Store(o)
         /\ view' = view

\* ---- emit: one frame per active call ----
\* arg: the argument; idx: position of the for-of iterator; errors: the local
\* `errors` array.  Observations: before (this.value when emit was entered),
\* start (the Set's list when the loop began), mark (Subscription objects
\* created before the loop began), called (subscriptions invoked by this
\* pass, in order), seen (this.value as each of them was entered), threw
\* (those whose invocation ended by an exception), nested (a listener of this
\* pass, or of a pass inside it, has called emit), cached (this.promise when
\* emit was entered), had (promise objects created before emit was entered),
\* prior (when the caller made this call as soon as an emit call of theirs had
\* thrown: the subscriptions that call invoked and the errors it collected).
NoPrior == [again |-> FALSE, called |-> <<>>, errors |-> <<>>]
\* (mutant) emit that skips the pass when the value is the current one
FrameSkipEqual(o, v, before) ==
    [arg |-> v, idx |-> IF v = before THEN Len(o.subscriptions) + 1 ELSE 1,
     errors |-> <<>>,
     before |-> before, start |-> o.subscriptions, mark |-> Len(o.subs),
     called |-> <<>>, seen |-> <<>>, threw |-> <<>>, nested |-> FALSE,
     cached |-> promise, had |-> Len(o.promises), prior |-> NoPrior]
\* `const errors = []` and the creation of the Set iterator
Frame(o, v, before) ==
    [arg |-> v, idx |-> 1, errors |-> <<>>,
     before |-> before, start |-> o.subscriptions, mark |-> Len(o.subs),
     called |-> <<>>, seen |-> <<>>, threw |-> <<>>, nested |-> FALSE,
     cached |-> promise, had |-> Len(o.promises), prior |-> NoPrior]
\* (mutant) a loop over a copy of the Set made when the pass began
IteratedSnapshot(o, f) == f.start
\* the collection the loop of frame f iterates: the Set itself
Iterated(o, f) == o.subscriptions
\* (mutant) a catch that keeps only the latest error
CatchKeepsLast(errors, thrown) == IF thrown # <<>> THEN thrown ELSE errors
\* `catch (error) { errors.push(error) }`
Catch(errors, thrown) == errors \o thrown
\* (mutant) an emit that drops the subscriptions whose listener threw
AfterLoopDropsFailed(o, f) ==
    [o EXCEPT !.subscriptions =
        [i \in DOMAIN @ |->
            IF \E k \in DOMAIN f.threw : f.threw[k] = @[i] THEN 0 ELSE @[i]]]
\* (mutant) an emit that stores its value again when its loop is over
AfterLoopRestore(o, f) == [o EXCEPT !.value = f.arg]
\* (mutant) a rollback of the value when listeners failed
AfterLoopRollback(o, f) == IF Len(f.errors) > 0 THEN [o EXCEPT !.value = f.before] ELSE o
\* the flow when the loop of frame f is over: nothing is undone
AfterLoop(o, f) == o
\* (mutant) a threshold that is off by one
ThrownIfSeveral(errors) == IF Len(errors) > 1 THEN <<AggregateError(errors)>> ELSE <<>>
\* `if (errors.length > 0) throw new AggregateError(errors, ...)`: what the
\* call throws (nothing, or one error)
Thrown(errors) == IF Len(errors) > 0 THEN <<AggregateError(errors)>> ELSE <<>>

\* observation: an emit call starts, every subscription that is on is owed
\* one invocation more
EmitStarted(o) ==
    [o EXCEPT !.subs = [s \in DOMAIN @ |->
        IF @[s].on THEN [@[s] EXCEPT !.owed = @ + 1] ELSE @[s]]]
\* observation: emit(v) is called in state before
Awaited(o, before, v) ==
    [o EXCEPT !.promises = [p \in DOMAIN @ |->
        [@[p] EXCEPT !.stale = @ \/ before.status # "pending",
                     !.first = IF @ = Pending THEN v ELSE @]]]
\* observation: the listener of subscription s is entered
Invoked(o, s) == [o EXCEPT !.subs[s].owed = @ - 1]

NoReturn ==
    [returned |-> FALSE, thrown |-> <<>>, arg |-> Pending, idx |-> 1, errors |-> <<>>,
     before |-> Pending, start |-> <<>>, mark |-> 0,
     called |-> <<>>, seen |-> <<>>, threw |-> <<>>, nested |-> FALSE,
     cached |-> 0, had |-> 0, prior |-> NoPrior,
     unsub |-> 0, wasOn |-> FALSE, got |-> 0]
Top == stack[Len(stack)]

\* (in the transition scenario the number of emit calls bounds the rest)
TypeOK ==
    /\ kind \in {"flow", "async"}
    /\ Len(subs) <= MaxSubs + ScenarioEmits /\ Len(subscriptions) = Len(subs)
    /\ Len(promises) <= MaxPromises + ScenarioEmits /\ promise \in 0..Len(promises)
    /\ Len(stack) <= MaxDepth /\ emits <= MaxEmits + ScenarioEmits
    /\ view \in {NoView, asFlow(Obj)}

Init ==
    /\ kind \in {"flow", "async"}
    /\ value \in {States[i] : i \in DOMAIN States}
    /\ subscriptions = <<>>
    /\ promise = 0
    /\ subs = <<>>
    /\ promises = <<>>
    /\ stack = <<>>
    /\ last = NoReturn
    /\ emits = 0
    /\ view = NoView

\* flow.subscribe(fn), called from outside a pass
Subscribe(fn) ==
    /\ stack = <<>>
    /\ Len(subs) < MaxSubs
    /\ fn.op = "promise" => kind = "async"
    /\ Store(subscribe(Obj, fn))
    /\ last' = NoReturn
    /\ UNCHANGED <<kind, stack, emits, view>>

\* handle.unsubscribe() of any handle subscribe has returned to a caller
\* (the handle of an internal listener stays inside asPromise), from outside
\* a pass
Unsubscribe(s) ==
    /\ stack = <<>>
    /\ s \in 1..Len(subs)
    /\ subs[s].listener.op # "internal"
    /\ Store(unsubscribe(Obj, s))
    /\ last' = NoReturn
    /\ UNCHANGED <<kind, stack, emits, view>>
\* the same call, observed: last records the handle and whether it was on
UnsubscribeSeen(s) ==
    /\ stack = <<>>
    /\ s \in 1..Len(subs)
    /\ subs[s].listener.op # "internal"
    /\ Store(unsubscribe(Obj, s))
    /\ last' = [NoReturn EXCEPT !.unsub = s, !.wasOn = subs[s].on]
    /\ UNCHANGED <<kind, stack, emits, view>>

\* flow.asPromise(), called from outside a pass
AsPromise ==
    /\ stack = <<>>
    /\ kind = "async"
    /\ promise = 0 => Len(promises) < MaxPromises
    /\ promise = 0 /\ value.status = "pending" => Len(subs) < MaxSubs
    /\ Store(asPromise(Obj))
    /\ last' = [NoReturn EXCEPT !.got = asPromise(Obj).promise]
    /\ UNCHANGED <<kind, stack, emits, view>>

\* flow.asFlow(), called from outside a pass
AsFlow ==
    /\ stack = <<>>
    /\ view' = asFlow(Obj)
    /\ last' = NoReturn
    /\ UNCHANGED <<kind, value, subscriptions, promise, subs, promises, stack, emits>>

\* view.subscribe(fn), called from outside a pass
SubscribeView(fn) ==
    /\ stack = <<>>
    /\ view # NoView
    /\ Len(ViewTarget.subs) < MaxSubs
    /\ StoreView(subscribe(ViewTarget, fn))
    /\ last' = NoReturn
    /\ UNCHANGED <<kind, stack, emits>>

\* view.asPromise(), called from outside a pass
AsPromiseView ==
    /\ stack = <<>>
    /\ view # NoView
    /\ kind = "async"
    /\ ViewTarget.promise = 0 => Len(ViewTarget.promises) < MaxPromises
    /\ ViewTarget.promise = 0 /\ ViewTarget.value.status = "pending"
           => Len(ViewTarget.subs) < MaxSubs
    /\ StoreView(asPromise(ViewTarget))
    /\ last' = [NoReturn EXCEPT !.got = asPromise(ViewTarget).promise]
    /\ UNCHANGED <<kind, stack, emits>>

\* flow.emit(v), called from outside a pass: the code before the loop
Emit(v) ==
    /\ stack = <<>>
    /\ emits < MaxEmits
    /\ LET o == Awaited(EmitStarted(emit(Obj, v)), value, v)
       IN /\ Store(o)
          /\ stack' = <<Frame(o, v, value)>>
    /\ emits' = emits + 1
    /\ last' = NoReturn
    /\ UNCHANGED <<kind, view>>

\* whether the listener fn, entered now, calls flow.emit
Emits(fn) == fn.op = "emit" /\ getSnapshot(Obj) # States[fn.arg]
\* what a listener that does not call emit does: [o: the flow afterwards,
\* thrown: what it throws (nothing, or one error)]
RunListener(o, s) ==
    LET fn == o.subs[s].listener
    IN CASE fn.op = "throw" -> [o |-> o, thrown |-> <<ListenerError(s)>>]
         [] fn.op = "sub" -> [o |-> subscribe(o, Fn("ok", 0)), thrown |-> <<>>]
         [] fn.op = "unsub" ->
                [o |-> IF fn.arg <= Len(o.subs) /\ o.subs[fn.arg].listener.op # "internal"
                       THEN unsubscribe(o, fn.arg) ELSE o,
                 thrown |-> <<>>]
         [] fn.op = "promise" -> [o |-> asPromise(o), thrown |-> <<>>]
         [] fn.op = "internal" -> [o |-> InternalListener(o, s, fn.arg), thrown |-> <<>>]
         [] OTHER -> [o |-> o, thrown |-> <<>>]

\* the frame after the iterator has yielded position j of list l and the
\* listener there has been entered
Entered(f, l, j) ==
    [f EXCEPT !.idx = j + 1,
              !.called = Append(@, l[j]),
              !.seen = Append(@, value)]
\* (mutant) a loop without try/catch around the listener: the first exception
\* ends the pass
LeftAbort(f, s, thrown) ==
    [f EXCEPT !.errors = Catch(@, thrown),
              !.threw = IF thrown # <<>> THEN Append(@, s) ELSE @,
              !.idx = IF thrown # <<>> THEN Len(subscriptions) + 2 ELSE @]
\* the frame after the listener of subscription s has been left
Left(f, s, thrown) ==
    [f EXCEPT !.errors = Catch(@, thrown),
              !.threw = IF thrown # <<>> THEN Append(@, s) ELSE @]

\* one turn of the loop: `try { subscription.listener() } catch (error) {
\* errors.push(error) }`, for a listener that returns or throws by itself
Call ==
    /\ stack # <<>>
    /\ LET l == Iterated(Obj, Top)
           j == NextEntry(l, Top.idx)
       IN /\ j # 0
          /\ LET s == l[j]
                 fn == subs[s].listener
                 r == RunListener(Invoked(Obj, s), s)
             IN /\ ~Emits(fn)
                /\ fn.op = "sub" => Len(subs) < MaxSubs
                /\ (fn.op = "promise" /\ promise = 0) => Len(promises) < MaxPromises
                /\ (fn.op = "promise" /\ promise = 0 /\ value.status = "pending")
                       => Len(subs) < MaxSubs
                /\ Store(r.o)
                /\ stack' = [stack EXCEPT ![Len(stack)] =
                                Left(Entered(@, l, j), s, r.thrown)]
    /\ last' = NoReturn
    /\ UNCHANGED <<kind, emits, view>>

\* one turn of the loop for a listener that calls flow.emit(States[fn.arg]): the
\* nested call starts; the listener is left when that call returns
CallEmit ==
    /\ stack # <<>>
    /\ Len(stack) < MaxDepth
    /\ emits < MaxEmits
    /\ LET l == Iterated(Obj, Top)
           j == NextEntry(l, Top.idx)
       IN /\ j # 0
          /\ LET fn == subs[l[j]].listener
             IN /\ Emits(fn)
                /\ LET o == Awaited(EmitStarted(emit(Invoked(Obj, l[j]), States[fn.arg])),
                                    value, States[fn.arg])
                   IN /\ Store(o)
                      /\ stack' = Append(
                            [i \in DOMAIN stack |->
                                [(IF i = Len(stack) THEN Entered(stack[i], l, j) ELSE stack[i])
                                    EXCEPT !.nested = TRUE]],
                            Frame(o, States[fn.arg], value))
    /\ emits' = emits + 1
    /\ last' = NoReturn
    /\ UNCHANGED <<kind, view>>

\* (mutant) passes that share one cursor: the calling pass goes on where the
\* inner one stopped
ResumeAtInner(f, inner) ==
    [Left(f, f.called[Len(f.called)], Thrown(inner.errors)) EXCEPT !.idx = inner.idx]
\* the frame f of the calling pass when the emit call its listener made
\* (frame inner) has returned: the listener is left, the loop goes on with
\* its own iterator
Resume(f, inner) == Left(f, f.called[Len(f.called)], Thrown(inner.errors))

\* the loop is over: emit returns, or throws the AggregateError.  When the
\* call was made by a listener, the listener is left: an AggregateError
\* leaves it uncaught and is caught by the loop of the calling pass.
Return ==
    /\ stack # <<>>
    /\ NextEntry(Iterated(Obj, Top), Top.idx) = 0
    /\ last' = [returned |-> TRUE, thrown |-> Thrown(Top.errors)] @@ Top @@ NoReturn
    /\ stack' =
         LET rest == SubSeq(stack, 1, Len(stack) - 1)
         IN IF rest = <<>> THEN rest
            ELSE [rest EXCEPT ![Len(rest)] = Resume(@, Top)]
    /\ Store(AfterLoop(Obj, Top))
    /\ UNCHANGED <<kind, emits, view>>

Next ==
    \/ \E fn \in UserListeners : Subscribe(fn)
    \/ \E s \in 1..MaxSubs : Unsubscribe(s)
    \/ AsPromise
    \/ \E i \in DOMAIN States : Emit(States[i])
    \/ Call
    \/ CallEmit
    \/ Return

Spec == Init /\ [][Next]_vars

\* a MutableFlowImpl made by createFlow: no asPromise, and the status of a
\* value means nothing to it, so two distinct values stand for its Data
FlowValues == {States[1], States[2]}
InitFlow == Init /\ kind = "flow" /\ value \in FlowValues
NextFlow ==
    \/ \E fn \in UserListeners : Subscribe(fn)
    \/ \E s \in 1..MaxSubs : Unsubscribe(s)
    \/ \E v \in FlowValues : Emit(v)
    \/ Call
    \/ CallEmit
    \/ Return
SpecFlow == InitFlow /\ [][NextFlow]_vars

\* a MutableFlowImpl whose unsubscribe calls are observed, with listeners
\* that return, throw, subscribe or unsubscribe
HandleListeners ==
    {Fn("ok", 0), Fn("throw", 0), Fn("sub", 0)} \cup {Fn("unsub", k) : k \in 1..MaxSubs}
NextHandles ==
    \/ \E fn \in HandleListeners : Subscribe(fn)
    \/ \E s \in 1..MaxSubs : UnsubscribeSeen(s)
    \/ \E v \in FlowValues : Emit(v)
    \/ Call
    \/ Return
SpecHandles == InitFlow /\ [][NextHandles]_vars

\* a MutableAsyncFlowImpl made by createAsyncFlow, with listeners that return,
\* throw, call asPromise or call emit
AsyncListeners == {Fn("ok", 0), Fn("throw", 0), Fn("promise", 0), Fn("emit", 1), Fn("emit", 2)}
InitAsync == Init /\ kind = "async"
NextAsync ==
    \/ \E fn \in AsyncListeners : Subscribe(fn)
    \/ \E s \in 1..MaxSubs : Unsubscribe(s)
    \/ AsPromise
    \/ \E i \in DOMAIN States : Emit(States[i])
    \/ Call
    \/ CallEmit
    \/ Return
SpecAsync == InitAsync /\ [][NextAsync]_vars

\* the transition scenario: a MutableAsyncFlowImpl created Pending, one
\* listener subscribed, then ScenarioEmits emit calls of any states, with
\* asPromise called after the subscribe and after every emit
InitScenario == InitAsync /\ value = Pending
ScenarioSubscribe ==
    /\ subs = <<>>
    /\ \E fn \in {Fn("ok", 0), Fn("throw", 0)} : Subscribe(fn)
ScenarioAsPromise ==
    /\ stack = <<>>
    /\ subs # <<>>
    /\ last.got = 0
    /\ Store(asPromise(Obj))
    /\ last' = [NoReturn EXCEPT !.got = asPromise(Obj).promise]
    /\ UNCHANGED <<kind, stack, emits, view>>
ScenarioEmit(v) ==
    /\ stack = <<>>
    /\ last.got # 0
    /\ emits < ScenarioEmits
    /\ LET o == Awaited(EmitStarted(emit(Obj, v)), value, v)
       IN /\ Store(o)
          /\ stack' = <<Frame(o, v, value)>>
    /\ emits' = emits + 1
    /\ last' = NoReturn
    /\ UNCHANGED <<kind, view>>
NextScenario ==
    \/ ScenarioSubscribe
    \/ ScenarioAsPromise
    \/ \E i \in DOMAIN States : ScenarioEmit(States[i])
    \/ Call
    \/ Return
SpecScenario == InitScenario /\ [][NextScenario]_vars

\* a MutableAsyncFlowImpl and its read-only view: listeners that return or
\* throw are subscribed through the view, asPromise is called on the view,
\* emit on the flow
ViewListeners == {Fn("ok", 0), Fn("throw", 0)}
NextView ==
    \/ AsFlow
    \/ \E fn \in ViewListeners : SubscribeView(fn)
    \/ \E s \in 1..MaxSubs : Unsubscribe(s)
    \/ AsPromiseView
    \/ \E i \in DOMAIN States : Emit(States[i])
    \/ Call
    \/ Return
SpecView == InitAsync /\ [][NextView]_vars

\* a MutableAsyncFlowImpl with listeners that return, throw or unsubscribe a
\* subscription, their own included
SelfListeners == {Fn("ok", 0), Fn("throw", 0)} \cup {Fn("unsub", k) : k \in 1..MaxSubs}
NextSelf ==
    \/ \E fn \in SelfListeners : Subscribe(fn)
    \/ \E s \in 1..MaxSubs : Unsubscribe(s)
    \/ AsPromise
    \/ \E i \in DOMAIN States : Emit(States[i])
    \/ Call
    \/ Return
SpecSelf == InitAsync /\ [][NextSelf]_vars

\* a MutableFlowImpl with listeners that return or throw, whose caller may
\* call emit again as soon as an emit call has thrown
RetryListeners == {Fn("ok", 0), Fn("throw", 0)}
EmitAgain(v) ==
    /\ stack = <<>>
    /\ last.returned /\ last.thrown # <<>>
    /\ emits < MaxEmits
    /\ LET o == Awaited(EmitStarted(emit(Obj, v)), value, v)
       IN /\ Store(o)
          /\ stack' = <<[Frame(o, v, value) EXCEPT !.prior =
                            [again |-> TRUE, called |-> last.called, errors |-> last.errors]]>>
    /\ emits' = emits + 1
    /\ last' = NoReturn
    /\ UNCHANGED <<kind, view>>
NextRetry ==
    \/ \E fn \in RetryListeners : Subscribe(fn)
    \/ \E s \in 1..MaxSubs : Unsubscribe(s)
    \/ \E v \in FlowValues : Emit(v)
    \/ \E v \in FlowValues : EmitAgain(v)
    \/ Call
    \/ Return
SpecRetry == InitFlow /\ [][NextRetry]_vars

\* ---- properties ----
Range(q) == {q[i] : i \in DOMAIN q}
Count(q, x) == Cardinality({i \in DOMAIN q : q[i] = x})
\* the subscriptions registered when the pass of frame f began, in order
Registered(f) == LiveSeq(f.start)
\* the listeners registered when the pass of f began neither touch the flow
\* nor do anything but return or throw
PlainListeners(f) == \A s \in Range(Registered(f)) : subs[s].listener.op \in {"ok", "throw"}
\* the errors of the throwing listeners among q, in the order of q
ErrorsOf(q) ==
    LET th == SelectSeq(q, LAMBDA s : subs[s].listener.op = "throw")
    IN [i \in DOMAIN th |-> ListenerError(th[i])]

\* C1 as stated: whenever a call emit(v) returns, normally or by throwing,
\* getSnapshot() returns v, whatever the listeners did during the call.
C1_SnapshotIsArgument == last.returned => getSnapshot(Obj) = last.arg
\* C1 amended: whenever a call emit(v) returns, normally or by throwing, and
\* no listener called emit during that call, getSnapshot() returns v.
C1_SnapshotIsArgumentUnlessNested ==
    (last.returned /\ ~last.nested) => getSnapshot(Obj) = last.arg
C1_Witness ==
    /\ last.returned /\ ~last.nested /\ last.thrown # <<>>
    /\ last.arg # last.before
    /\ Registered(last) # LiveSeq(subscriptions)
    /\ getSnapshot(Obj) = last.arg

\* C2: when no subscription has been unsubscribed, the listeners O1..On that
\* were registered when emit was called are invoked by that call in exactly
\* the order of their registration, each once.
C2_OrderPreserved ==
    (last.returned /\ \A i \in DOMAIN subscriptions : subscriptions[i] # 0)
        => SelectSeq(last.called, LAMBDA s : s <= last.mark) = [i \in 1..last.mark |-> i]
C2_Witness ==
    /\ last.returned /\ \A i \in DOMAIN subscriptions : subscriptions[i] # 0
    /\ last.mark = 3
    /\ last.called = <<1, 2, 3>>

\* C3: with listeners that only return or throw, one emit invokes every
\* registered listener exactly once, in order, although some throw, and then
\* throws one AggregateError whose errors are exactly the thrown errors, in
\* registration order.
C3_PartialFailure ==
    (last.returned /\ PlainListeners(last)) =>
        /\ last.called = Registered(last)
        /\ last.errors = ErrorsOf(Registered(last))
        /\ last.thrown = (IF ErrorsOf(Registered(last)) = <<>> THEN <<>>
                          ELSE <<AggregateError(ErrorsOf(Registered(last)))>>)
C3_Witness ==
    /\ last.returned /\ PlainListeners(last)
    /\ Len(last.called) = 3
    /\ subs[last.called[1]].listener.op = "throw"
    /\ subs[last.called[2]].listener.op = "ok"
    /\ subs[last.called[3]].listener.op = "throw"
    /\ last.thrown = <<AggregateError(<<ListenerError(last.called[1]),
                                        ListenerError(last.called[3])>>)>>

\* C4: emit throws the AggregateError if and only if at least one listener
\* invocation of its pass ended by an exception, and it does so only when the
\* loop has no subscription left to visit.
C4_ThrowsIffListenerThrew ==
    last.returned =>
        /\ (last.thrown # <<>>) <=> (last.threw # <<>>)
        /\ NextEntry(subscriptions, last.idx) = 0
C4_Witness ==
    /\ last.returned /\ last.thrown # <<>>
    /\ Len(last.called) >= 2
    /\ Len(last.threw) = 1

\* C5: when emit(v) throws the AggregateError (no listener having called emit
\* during the pass), getSnapshot() returns v afterwards and every listener
\* invoked in the pass was entered with the value already v.
C5_NoRollback ==
    (last.returned /\ last.thrown # <<>> /\ ~last.nested) =>
        /\ getSnapshot(Obj) = last.arg
        /\ \A i \in DOMAIN last.seen : last.seen[i] = last.arg
C5_Witness ==
    /\ last.returned /\ last.thrown # <<>> /\ ~last.nested
    /\ last.arg # last.before
    /\ Len(last.called) = 3 /\ last.threw = <<last.called[2]>>
    /\ getSnapshot(Obj) = last.arg

C7_SkipsEqualValue ==
    (last.returned /\ last.arg = last.before) => last.called = <<>>

\* C8: a listener subscribed during a notification pass is not invoked in
\* that pass.
C8_AddedNotInvokedInSamePass ==
    last.returned => \A s \in Range(last.called) : s <= last.mark

C10_SnapshotIteration ==
    last.returned => \A s \in Range(Registered(last)) : Count(last.called, s) = 1

\* C11: when every listener only returns or throws (all calls are made from
\* outside notification passes), then whenever no emit is running the number
\* of invocations of each subscription's listener equals the number of emit
\* calls made while it was registered: each emit invokes each registered
\* subscription once, and neither subscribe nor anything after unsubscribe
\* invokes it.
C11_InvokedOncePerEmit ==
    (stack = <<>> /\ \A s \in DOMAIN subs : subs[s].listener.op \in {"ok", "throw"})
        => \A s \in DOMAIN subs : subs[s].owed = 0
C11_Witness ==
    /\ last.returned /\ stack = <<>> /\ emits = 2
    /\ \A s \in DOMAIN subs : subs[s].listener.op \in {"ok", "throw"} /\ subs[s].owed = 0
    /\ Len(subs) = 3 /\ Live(subscriptions) = {1, 3}
    /\ last.called = <<1, 3>> /\ last.mark = 3

\* a step that is a call of the unsubscribe of handle s, from outside a pass
\* or by the listener the loop enters
Unsubscribed(s) ==
    \/ Unsubscribe(s)
    \/ UnsubscribeSeen(s)
    \/ /\ Call
       /\ stack # <<>>
       /\ LET l == Iterated(Obj, Top)
              j == NextEntry(l, Top.idx)
          IN /\ j # 0 /\ subs[l[j]].listener = Fn("unsub", s)
             /\ s <= Len(subs) /\ subs[s].listener.op # "internal"
\* C12: unsubscribe is idempotent and exact.  A call of a handle's unsubscribe,
\* from outside a pass or by a listener, removes that handle's registration
\* from the registry when it is there, keeps every other registration in its
\* place and keeps the value; on a handle that is not registered (already
\* unsubscribed) it changes nothing.  It never throws.
C12_UnsubscribeExact ==
    [][\A s \in 1..MaxSubs : Unsubscribed(s) =>
          /\ LiveSeq(subscriptions') = SelectSeq(LiveSeq(subscriptions), LAMBDA x : x # s)
          /\ s \notin Live(subscriptions) => Live(subscriptions') = Live(subscriptions)
          /\ value' = value
          /\ [i \in DOMAIN subs' |-> subs'[i].listener] = [i \in DOMAIN subs |-> subs[i].listener]
          /\ stack # <<>> => stack'[Len(stack')].errors = Top.errors]_vars
\* the second call on handle 2 has returned; 1 and 3 are still registered
C12_Witness ==
    /\ last.unsub = 2 /\ ~last.wasOn
    /\ Len(subs) = 3 /\ LiveSeq(subscriptions) = <<1, 3>>
    /\ emits > 0

\* C13: subscribing the same listener function k times makes k registrations
\* that are independent.  When an emit of a flow whose listeners only return
\* or throw has returned, each listener function has been invoked once per
\* registration of it that was subscribed and not unsubscribed, however many
\* registrations of the same function there are or were unsubscribed.
C13_SameListenerIndependent ==
    (/\ last.returned /\ stack = <<>>
     /\ \A s \in DOMAIN subs : subs[s].listener.op \in {"ok", "throw"})
        => \A fn \in UserListeners :
              Len(SelectSeq(last.called, LAMBDA s : subs[s].listener = fn))
                  = Cardinality({s \in DOMAIN subs : subs[s].on /\ subs[s].listener = fn})
\* one function subscribed three times, the second registration unsubscribed,
\* and an emit has invoked it twice
C13_Witness ==
    /\ last.returned /\ stack = <<>>
    /\ Len(subs) = 3 /\ \A s \in DOMAIN subs : subs[s].listener = Fn("ok", 0)
    /\ subs[1].on /\ ~subs[2].on /\ subs[3].on
    /\ last.called = <<1, 3>>

\* C14: promise de-duplication.  While the state is Pending, a call of
\* asPromise returns every promise that an earlier call returned and that has
\* not settled yet.
C14_PendingDeduplicated ==
    value.status = "pending" =>
        \A p \in DOMAIN promises :
            promises[p].status = "pending" => asPromise(Obj).promise = p
\* C14 (amended): the same, for two calls between which the state has been
\* Pending throughout (emit has not been called in a Success or Error state
\* since the earlier call).
C14_PendingDeduplicatedThroughout ==
    value.status = "pending" =>
        \A p \in DOMAIN promises :
            (promises[p].status = "pending" /\ ~promises[p].stale)
                => asPromise(Obj).promise = p
\* asPromise, then subscribe and emit(Pending), then asPromise again: the
\* second call has returned the promise of the first
C14_Witness ==
    /\ last.got = 1 /\ Len(promises) = 1
    /\ promises[1].status = "pending" /\ ~promises[1].stale
    /\ value.status = "pending" /\ emits = 1
    /\ Len(subs) = 2 /\ subs[1].listener = Fn("internal", 1) /\ subs[2].owed = 0
    /\ subs[2].on /\ subs[1].on

\* promise p is settled with the payload of state: resolved with its data, or
\* rejected with its error
SettledWith(p, state) ==
    \/ state.status = "success" /\ p.status = "fulfilled" /\ p.result = state.data
    \/ state.status = "error" /\ p.status = "rejected" /\ p.result = state.error
\* C15: pending waits for the first resolution.  A promise obtained while the
\* state is Pending is unsettled as long as only Pending has been emitted since
\* it was obtained, and once settled it is settled with the payload of the
\* first Success or Error passed to emit since it was obtained.
C15_SettlesWithFirstResolution ==
    \A p \in DOMAIN promises :
        promises[p].born.status = "pending" =>
            /\ promises[p].first.status = "pending" => promises[p].status = "pending"
            /\ promises[p].status # "pending" => SettledWith(promises[p], promises[p].first)
\* C15 (amended): the same when no listener calls emit; the promise is then
\* settled by the time the first emit of a Success or Error returns.
C15_SettlesWithFirstResolutionUnlessNested ==
    (\A s \in DOMAIN subs : subs[s].listener.op # "emit") =>
        \A p \in DOMAIN promises :
            promises[p].born.status = "pending" =>
                /\ promises[p].first.status = "pending" => promises[p].status = "pending"
                /\ promises[p].status # "pending" => SettledWith(promises[p], promises[p].first)
                /\ (stack = <<>> /\ promises[p].first.status # "pending")
                       => promises[p].status # "pending"
\* a promise obtained while Pending has been rejected by emit(Error e1), which
\* followed an emit(Pending), although a listener before it threw
C15_Witness ==
    /\ last.returned /\ stack = <<>> /\ emits = 2
    /\ last.before = Pending /\ last.arg = Error("e1") /\ last.cached = 1
    /\ promises[1].born = Pending /\ SettledWith(promises[1], Error("e1"))
    /\ Len(subs) = 2 /\ subs[1].listener = Fn("throw", 0)
    /\ last.called = <<1, 2>> /\ last.thrown # <<>>

\* C16: immediate settlement.  A promise that asPromise created while the
\* state was Success(d) is resolved with d, and one created while the state
\* was Error(e) is rejected with e itself, from the moment it is returned and
\* without any emit, also when the flow was constructed in that state.
C16_ImmediateSettlement ==
    \A p \in DOMAIN promises :
        promises[p].born.status # "pending" => SettledWith(promises[p], promises[p].born)
\* a flow constructed in Error(e1): the first asPromise has returned a promise
\* rejected with e1, no emit was made and nothing was subscribed
C16_Witness ==
    /\ emits = 0 /\ value = Error("e1") /\ subs = <<>>
    /\ last.got = 1 /\ Len(promises) = 1
    /\ promises[1].status = "rejected" /\ promises[1].result = "e1"

\* C17: cache invalidation rule.  The step that enters emit(newState), before
\* any listener of that call has run, empties the promise cache when the
\* state just before it is Success or Error, whatever newState is, and leaves
\* the cache as it is when the state just before it is Pending.
C17_InvalidationRule ==
    [][emits' = emits + 1 =>
          /\ value' = stack'[Len(stack')].arg
          /\ stack'[Len(stack')].called = <<>>
          /\ value.status # "pending" => promise' = 0
          /\ value.status = "pending" => promise' = promise]_vars
\* emit(Success d2) has been entered in state Success(d1) with a promise in
\* the cache: the cache is empty and no listener has run yet
C17_Witness ==
    /\ stack # <<>> /\ Top.called = <<>> /\ Top.idx = 1
    /\ Top.before = Success("d1") /\ Top.arg = Success("d2")
    /\ Top.cached = 1 /\ promise = 0
    /\ Live(subscriptions) # {}

C20_NewPromiseAfterResolution ==
    (/\ last.returned /\ stack = <<>> /\ ~last.nested
     /\ last.before = Pending /\ last.arg.status = "success"
     /\ last.cached # 0)
        => LET o == asPromise(Obj)
           IN /\ o.promise # last.cached
              /\ SettledWith(o.promises[o.promise], last.arg)

\* asPromise does not return a settled promise created before an emit that
\* was made in a Success or Error state
FreshAfterResolved ==
    \A p \in DOMAIN promises :
        (promises[p].status # "pending" /\ promises[p].stale)
            => asPromise(Obj).promise # p
\* C21: a fresh promise after leaving a resolved state.  Once a promise has
\* settled, after any emit made while the state is Success or Error the
\* accessor returns another promise instance, and the settled promise keeps
\* its outcome for ever.
C21_FreshPromiseAfterResolved ==
    [][/\ FreshAfterResolved'
       /\ \A p \in DOMAIN promises :
             promises[p].status # "pending" =>
                 /\ promises'[p].status = promises[p].status
                 /\ promises'[p].result = promises[p].result]_vars
\* Success(d1), asPromise, emit(Error e1), asPromise: the second call has
\* returned a second promise, rejected with e1; the first is still resolved
\* with d1
C21_Witness ==
    /\ last.got = 2 /\ Len(promises) = 2 /\ emits = 1
    /\ value = Error("e1")
    /\ promises[1].stale /\ SettledWith(promises[1], Success("d1"))
    /\ ~promises[2].stale /\ SettledWith(promises[2], Error("e1"))

C23_SettledWhenEmitReturns ==
    (last.returned /\ last.arg.status # "pending")
        => \A p \in 1..last.had : promises[p].status # "pending"
\* C23 (amended): the same for an emit call during which no listener calls emit.
C23_SettledWhenEmitReturnsUnlessNested ==
    (last.returned /\ last.arg.status # "pending" /\ ~last.nested)
        => \A p \in 1..last.had : promises[p].status # "pending"
\* emit(Success d2) made in state Pending, with an unsettled promise in the
\* cache, has returned: the promise is resolved with d2
C23_Witness ==
    /\ last.returned /\ stack = <<>> /\ ~last.nested
    /\ last.before = Pending /\ last.arg = Success("d2")
    /\ last.had = 1 /\ last.cached = 1 /\ Len(promises) = 1
    /\ promises[1].born = Pending /\ SettledWith(promises[1], Success("d2"))
    /\ \E s \in Range(last.called) : subs[s].listener = Fn("internal", 1)

\* the passes so far invoked nobody twice, and a pass that has returned has
\* invoked every subscription registered when it began and still registered
NoneSkippedOrRepeated ==
    /\ \A i \in DOMAIN stack : \A s \in Range(stack[i].called) : Count(stack[i].called, s) = 1
    /\ last.returned =>
          /\ \A s \in Range(last.called) : Count(last.called, s) = 1
          /\ \A s \in Range(Registered(last)) :
                s \in Live(subscriptions) => Count(last.called, s) = 1
\* C24: nested emit.  While an emit call made by a listener is active, the
\* pass of the calling emit invokes nobody (the nested pass runs to its end
\* first) and keeps its place; every pass, nested or calling, invokes by the
\* time it returns each subscription registered when it began and still
\* registered exactly once, and nobody twice.
C24_NestedEmit ==
    [][/\ NoneSkippedOrRepeated'
       /\ \A i \in 1..(Len(stack) - 1) :
             i <= Len(stack') =>
                 /\ stack'[i].called = stack[i].called
                 /\ stack'[i].idx = stack[i].idx]_vars
\* an emit whose first listener called emit has returned: after the nested
\* pass the calling pass went on to the second and third listener
C24_Witness ==
    /\ last.returned /\ stack = <<>> /\ last.nested /\ emits = 2
    /\ Len(subs) = 3 /\ subs[1].listener.op = "emit"
    /\ subs[2].listener.op = "ok" /\ subs[3].listener.op = "throw"
    /\ last.called = <<1, 2, 3>> /\ Registered(last) = <<1, 2, 3>>
    /\ \A s \in 1..3 : subs[s].owed = 0

\* C25: cache presence.  In every state the cache holds a promise exactly
\* when asPromise has been called since the flow was created or since the
\* last emit made in a Success or Error state, whichever is later, that is,
\* when some promise was created after that point; it then holds that promise.
C25_CachePresence ==
    /\ promise # 0 <=> \E p \in DOMAIN promises : ~promises[p].stale
    /\ promise # 0 => ~promises[promise].stale
\* Success or Error, asPromise, emit(Pending), asPromise: the cache, emptied
\* by the emit, holds the second promise
C25_Witness ==
    /\ last.got = 2 /\ promise = 2 /\ Len(promises) = 2 /\ emits = 1
    /\ value = Pending
    /\ promises[1].stale /\ promises[1].status # "pending"
    /\ ~promises[2].stale /\ promises[2].status = "pending"

\* C26: only emit changes the value.  A step that is a call of asFlow, of
\* subscribe, of unsubscribe or of asPromise leaves the value as it is; the
\* value changes only in the step that enters emit, to the argument; so
\* before any emit getSnapshot returns the value the flow was created with.
\* getSnapshot itself is a read of the value.
C26_OnlyEmitChangesValue ==
    [][/\ (\/ AsFlow
           \/ \E fn \in ViewListeners : SubscribeView(fn)
           \/ \E s \in 1..MaxSubs : Unsubscribe(s)
           \/ AsPromiseView) => value' = value
       /\ value' # value => (emits' = emits + 1 /\ value' = stack'[Len(stack')].arg)
       /\ emits' = 0 => getSnapshot(Obj)' = getSnapshot(Obj)]_vars
\* a flow created in Success(d2): after asFlow, subscribe, unsubscribe and
\* asPromise, and no emit, the value is Success(d2)
C26_Witness ==
    /\ emits = 0 /\ value = Success("d2") /\ view = asFlow(Obj)
    /\ Len(subs) = 1 /\ ~subs[1].on /\ subscriptions = <<0>>
    /\ last.got = 1 /\ SettledWith(promises[1], Success("d2"))

\* C27: the read-only view shares the state of the flow.  Once asFlow has
\* returned the view, in every state getSnapshot on the view returns what
\* getSnapshot on the flow returns, asPromise on the view returns the promise
\* asPromise on the flow returns, and the view's registry is the flow's: the
\* subscriptions made through the view are in the flow's registry until
\* their handle is called, and when no emit is running each listener
\* subscribed through the view has been invoked once per emit of the flow
\* made while it was subscribed.
C27_ViewSharesState ==
    view # NoView =>
        /\ getSnapshot(ViewTarget) = getSnapshot(Obj)
        /\ asPromise(ViewTarget).promise = asPromise(Obj).promise
        /\ ViewTarget.promise = promise
        /\ ViewTarget.subscriptions = subscriptions /\ ViewTarget.subs = subs
        /\ Live(subscriptions) = {s \in DOMAIN subs : subs[s].on}
        /\ stack = <<>> =>
              \A s \in DOMAIN subs : subs[s].listener \in ViewListeners => subs[s].owed = 0
\* through the view: two listeners subscribed, the second unsubscribed,
\* asPromise called while Pending; flow.emit(Success d1) has invoked the
\* first listener and resolved the promise
C27_Witness ==
    /\ view = asFlow(Obj) /\ last.returned /\ stack = <<>>
    /\ Len(subs) = 3 /\ subs[1].listener = Fn("ok", 0) /\ subs[1].on
    /\ subs[2].listener \in ViewListeners /\ ~subs[2].on
    /\ subs[3].listener = Fn("internal", 1)
    /\ last.called = <<1, 3>> /\ value = Success("d1")
    /\ promise = 1 /\ SettledWith(promises[1], Success("d1"))

\* C28: cache coherence.  Whenever no emit is running, the promise asPromise
\* returns agrees with the state: resolved with d in Success(d), rejected
\* with e in Error(e), unsettled in Pending; whatever listeners did.
C28_CacheCoherence ==
    stack = <<>> =>
        LET o == asPromise(Obj)
            q == o.promises[o.promise]
        IN IF value.status = "pending" THEN q.status = "pending"
           ELSE SettledWith(q, value)
\* emit(Success d2) made in Success(d1), with the promise of d1 in the cache
\* and a listener that called asPromise during the pass, has returned: the
\* cache holds a second promise, resolved with d2
C28_Witness ==
    /\ last.returned /\ stack = <<>>
    /\ last.before = Success("d1") /\ last.arg = Success("d2") /\ last.cached = 1
    /\ promise = 2 /\ SettledWith(promises[1], Success("d1"))
    /\ SettledWith(promises[2], Success("d2"))
    /\ \E s \in Range(last.called) : subs[s].listener = Fn("promise", 0)

\* C29: no orphaned promise.  Whenever no emit is running and the state is
\* Success or Error, every promise asPromise has returned is settled and no
\* internal subscription of asPromise is in the registry.
C29_NoOrphanedPromise ==
    (stack = <<>> /\ value.status # "pending") =>
        /\ \A p \in DOMAIN promises : promises[p].status # "pending"
        /\ \A s \in Live(subscriptions) : subs[s].listener.op # "internal"
\* a listener emitted Success(d1) from inside the pass of emit(Error e1), made
\* in Pending with an unsettled promise: the promise is settled, its
\* internal subscription is gone
C29_Witness ==
    /\ last.returned /\ stack = <<>> /\ last.nested
    /\ last.before = Pending /\ last.arg = Error("e1") /\ value = Success("d1")
    /\ last.had = 1 /\ promises[1].born = Pending /\ promises[1].status # "pending"
    /\ \E s \in DOMAIN subs : subs[s].listener = Fn("internal", 1) /\ ~subs[s].on
    /\ \A s \in Live(subscriptions) : subs[s].listener.op # "internal"

\* the internal subscriptions in the registry
InternalSubscriptions == {s \in Live(subscriptions) : subs[s].listener.op = "internal"}
\* C30: at most one internal subscription.  In every state the registry
\* holds at most one subscription made by asPromise, and it is the one of
\* the promise in the cache.
C30_OneInternalSubscription ==
    /\ Cardinality(InternalSubscriptions) <= 1
    /\ \A s \in InternalSubscriptions : promise # 0 /\ subs[s].listener = Fn("internal", promise)
\* C30 (amended): the same when no listener calls emit.
C30_OneInternalSubscriptionUnlessNested ==
    (\A s \in DOMAIN subs : subs[s].listener.op # "emit") =>
        /\ Cardinality(InternalSubscriptions) <= 1
        /\ \A s \in InternalSubscriptions :
              promise # 0 /\ subs[s].listener = Fn("internal", promise)
\* Pending: asPromise, emit(Pending), asPromise from a listener and from
\* outside: one internal subscription, of the promise in the cache
C30_Witness ==
    /\ stack = <<>> /\ value = Pending /\ emits = 2 /\ last.got = 1
    /\ promise = 1 /\ Len(promises) = 1 /\ promises[1].status = "pending"
    /\ Cardinality(InternalSubscriptions) = 1
    /\ \E s \in DOMAIN subs : subs[s].listener = Fn("promise", 0) /\ subs[s].on

\* C31: a throwing listener does not block settlement.  When emit(v), v a
\* Success or Error state, is called in Pending with an outstanding promise
\* and a user listener throws during its pass (no listener calling emit),
\* the promise is settled with the payload of v when the call ends, and the
\* call throws the AggregateError; the throwing listener may be registered
\* before or after the internal subscription.
C31_ThrowDoesNotBlockSettlement ==
    (/\ last.returned /\ ~last.nested
     /\ last.before = Pending /\ last.arg.status # "pending"
     /\ last.cached # 0 /\ last.threw # <<>>) =>
        /\ SettledWith(promises[last.cached], last.arg)
        /\ last.thrown = <<AggregateError(last.errors)>>
\* emit(Error e1) in Pending: a throwing listener, the internal listener of
\* the outstanding promise, a second throwing listener; the promise is
\* rejected with e1 and the call throws both errors
C31_Witness ==
    /\ last.returned /\ ~last.nested
    /\ last.before = Pending /\ last.arg = Error("e1") /\ last.cached = 1
    /\ Len(last.called) = 3 /\ last.threw = <<last.called[1], last.called[3]>>
    /\ subs[last.called[2]].listener = Fn("internal", 1)
    /\ SettledWith(promises[1], Error("e1"))
    /\ Len(last.thrown) = 1 /\ Len(last.thrown[1].errors) = 2

\* C32: pass termination.  A notification pass invokes no more listeners
\* than were registered when it began, also when the listeners it invokes
\* subscribe further listeners.
C32_PassBounded ==
    last.returned => Len(last.called) <= Len(Registered(last))

\* C33: single settlement.  For each promise asPromise created, resolve or
\* reject is invoked at most once, nested emits included, and the internal
\* listener of a promise is not invoked once the promise is settled (it
\* unsubscribes itself as it settles).
C33_SingleSettlement ==
    [][/\ \A p \in DOMAIN promises' : promises'[p].calls <= 1
       /\ \A i \in DOMAIN stack :
             (i <= Len(stack') /\ Len(stack'[i].called) > Len(stack[i].called)) =>
                 LET fn == subs[stack'[i].called[Len(stack'[i].called)]].listener
                 IN fn.op = "internal" => promises[fn.arg].status = "pending"]_vars
\* an emit made in Pending with an outstanding promise has returned; a
\* listener registered before the internal one made a nested emit, whose
\* pass settled the promise; the outer pass, which held the internal
\* subscription when it began, has not invoked it; one settlement
C33_Witness ==
    /\ last.returned /\ stack = <<>> /\ last.nested
    /\ last.before = Pending /\ last.cached = 1
    /\ promises[1].status # "pending" /\ promises[1].calls = 1
    /\ \E s \in Range(Registered(last)) :
          /\ subs[s].listener = Fn("internal", 1)
          /\ s \notin Range(last.called)
          /\ ~subs[s].on

\* subscription s removes itself, and nothing else, when it is invoked
RemovesItself(s) ==
    subs[s].listener.op = "internal" \/ subs[s].listener = Fn("unsub", s)
\* C34: self-removal does not skip neighbours.  When the listeners registered
\* as a pass begins do nothing to the registry but unsubscribe themselves
\* (the internal listener of asPromise, or any listener), the pass invokes
\* every subscription registered before the emit exactly once, in order,
\* those registered before and those registered after a self-removing one.
C34_SelfRemovalKeepsNeighbours ==
    (/\ last.returned
     /\ \A s \in Range(Registered(last)) :
           RemovesItself(s) \/ subs[s].listener.op \in {"ok", "throw"}) =>
        last.called = Registered(last)
\* a pass over three subscriptions has returned: the second one, the internal
\* listener of a promise or a listener that unsubscribes itself, removed
\* itself; the first and the third were invoked and are still registered
C34_Witness ==
    /\ last.returned /\ Len(Registered(last)) = 3 /\ Len(last.called) = 3
    /\ RemovesItself(last.called[2]) /\ last.called[2] \notin Live(subscriptions)
    /\ ~RemovesItself(last.called[1]) /\ last.called[1] \in Live(subscriptions)
    /\ ~RemovesItself(last.called[3]) /\ last.called[3] \in Live(subscriptions)
    /\ last.start = <<last.called[1], last.called[2], last.called[3]>>

\* C35: no stale promise inside a pass.  A listener that calls asPromise
\* during a notification pass receives an unsettled promise or one settled
\* with the payload of the state getSnapshot returns to it, never one
\* settled with the payload of an earlier state.
C35_NoStalePromiseInPass ==
    [][\A i \in DOMAIN stack :
          (i <= Len(stack') /\ Len(stack'[i].called) > Len(stack[i].called)) =>
              (subs[stack'[i].called[Len(stack'[i].called)]].listener.op = "promise" =>
                  /\ promise' # 0
                  /\ \/ promises'[promise'].status = "pending"
                     \/ SettledWith(promises'[promise'], getSnapshot(Obj)'))]_vars
\* inside the pass of emit(Error e1), made in Success(d1) with the promise of
\* d1 in the cache: a listener has just called asPromise and received a
\* second promise, rejected with e1
C35_Witness ==
    /\ stack # <<>> /\ Top.called # <<>>
    /\ subs[Top.called[Len(Top.called)]].listener = Fn("promise", 0)
    /\ Top.before = Success("d1") /\ Top.arg = Error("e1") /\ Top.cached = 1
    /\ value = Error("e1")
    /\ SettledWith(promises[1], Success("d1"))
    /\ promise = 2 /\ SettledWith(promises[2], Error("e1"))

\* C36: last writer wins.  getSnapshot() returns the argument of the most
\* recently started emit call, nested calls included, or the initial value
\* when emit was never called: the value becomes the argument when an emit
\* call starts and nothing else changes it, so a listener of an outer pass
\* that runs after a nested emit reads the nested value.
C36_LastWriterWins ==
    [][IF emits' # emits
       THEN getSnapshot(Obj)' = stack'[Len(stack')].arg
       ELSE getSnapshot(Obj)' = getSnapshot(Obj)]_vars
\* emit(v) has returned: its first listener made a nested emit(w), w # v, and
\* the listener the outer pass invoked next read w; getSnapshot() returns w
C36_Witness ==
    /\ last.returned /\ stack = <<>> /\ last.nested
    /\ Len(last.called) = 2
    /\ subs[last.called[1]].listener.op = "emit"
    /\ subs[last.called[2]].listener.op = "ok"
    /\ last.seen[1] = last.arg
    /\ last.seen[2] = States[subs[last.called[1]].listener.arg]
    /\ last.seen[2] # last.arg
    /\ getSnapshot(Obj) = last.seen[2]

\* C37: failure leaves the registry unchanged.  When an emit call throws the
\* AggregateError (listeners that return or throw), the registry is as it
\* was when the call began, the listeners that threw included; an emit call
\* made next invokes the same subscriptions again and throws the same errors.
C37_FailureKeepsRegistry ==
    /\ (last.returned /\ last.thrown # <<>>) =>
           /\ subscriptions = last.start
           /\ \A s \in Range(last.threw) : s \in Live(subscriptions) /\ subs[s].on
    /\ (last.returned /\ last.prior.again) =>
           /\ last.called = last.prior.called
           /\ last.errors = last.prior.errors
           /\ last.thrown = <<AggregateError(last.prior.errors)>>
\* the second of two emit calls has thrown: both invoked the same three
\* subscriptions, two of which threw, and all three are registered
C37_Witness ==
    /\ last.returned /\ last.prior.again
    /\ Len(last.called) = 3 /\ Len(last.threw) = 2
    /\ last.prior.called = last.called
    /\ last.thrown = <<AggregateError(last.prior.errors)>>
    /\ LiveSeq(subscriptions) = last.called

====
